---- MODULE Spec2Model ----
(***************************************************************************)
(* The ABI value-tree serializer of firefly-signer (package abi,           *)
(* src/unnamed/part_000): the policy set (Serializer), the recursive tree  *)
(* walker walkOutput, and the elementary, array and tuple encoders.        *)
(*                                                                         *)
(* Conventions                                                             *)
(*  - a Go string is a sequence of one-character strings ("" is << >>);    *)
(*  - a *big.Int is [neg, abs], abs the big-endian bytes of the magnitude  *)
(*    without leading zero bytes (Go's nat), zero being [FALSE, << >>];    *)
(*  - a Go interface{} value produced by the serializer is a record with   *)
(*    a tag t: nil, str, num (float64), bool, arr, obj, and the symbolic   *)
(*    applications float (s.fs) and addr (s.ad) of strategies that live    *)
(*    outside this file's arithmetic;                                      *)
(*  - the recursion of walkOutput is a stack of frames, one per call of    *)
(*    serializeArray / serializeTuple that is in progress; ret is the      *)
(*    value a call has just returned to its caller;                        *)
(*  - a panic (a failed type assertion, FillBytes on a value that does not *)
(*    fit) ends the call: pc becomes "panicked" and nothing is returned;   *)
(*  - visited and results are history: the nodes walkOutput was called on, *)
(*    in order, and what each finished call returned.                      *)
(* Left out: SerializeJSON (encoding/json on the returned value), the      *)
(* base64 byte strategy, and the text of big.Float and ethtypes addresses. *)
(***************************************************************************)
EXTENDS Integers, Sequences, FiniteSets, TLC

VARIABLES s, root, pc, stack, ret, result, visited, results

vars == <<s, root, pc, stack, ret, result, visited, results>>

\* ------------------------------------------------------------------ bounds

\* Largest number of nodes of an input value tree.
MaxNodes == 4

\* Largest number of magnitude bytes of a decoded integer.
MaxBytes == 21

\* ------------------------------------------------------- strings and bytes

DigitChars == <<"0", "1", "2", "3", "4", "5", "6", "7", "8", "9">>

HexChars == DigitChars \o <<"a", "b", "c", "d", "e", "f">>

RECURSIVE StripZeros(_)
\* nat.norm: drop the leading zero bytes
StripZeros(b) ==
    IF b = <<>> THEN <<>>
    ELSE IF Head(b) = 0 THEN StripZeros(Tail(b)) ELSE b

RECURSIVE Zeros(_)
Zeros(n) == IF n <= 0 THEN <<>> ELSE <<0>> \o Zeros(n - 1)

RECURSIVE FormatNat(_)
\* the decimal digits of a machine integer n > 0, most significant first
FormatNat(n) ==
    IF n = 0 THEN <<>> ELSE FormatNat(n \div 10) \o <<DigitChars[(n % 10) + 1]>>

\* strconv.FormatInt(int64(idx), 10)
FormatInt(n) ==
    IF n = 0 THEN <<"0">>
    ELSE IF n < 0 THEN <<"-">> \o FormatNat(-n) ELSE FormatNat(n)

RECURSIVE EncodeToString(_)
\* hex.EncodeToString: two lowercase hex characters per byte
EncodeToString(b) ==
    IF b = <<>> THEN <<>>
    ELSE <<HexChars[(Head(b) \div 16) + 1], HexChars[(Head(b) % 16) + 1]>>
             \o EncodeToString(Tail(b))

\* ----------------------------------------------------------------- big.Int

BigInt(neg, abs) == [neg |-> neg /\ StripZeros(abs) # <<>>, abs |-> StripZeros(abs)]

RECURSIVE CmpBytes(_, _)
\* lexicographic comparison of two byte strings of the same length
CmpBytes(a, b) ==
    IF a = <<>> THEN 0
    ELSE IF Head(a) < Head(b) THEN -1
    ELSE IF Head(a) > Head(b) THEN 1
    ELSE CmpBytes(Tail(a), Tail(b))

\* nat.cmp
CmpAbs(a, b) ==
    IF Len(a) < Len(b) THEN -1
    ELSE IF Len(a) > Len(b) THEN 1
    ELSE CmpBytes(a, b)

\* (*big.Int).Cmp: -1, 0 or +1
Cmp(x, y) ==
    IF x.neg # y.neg THEN (IF x.neg THEN -1 ELSE 1)
    ELSE IF x.neg THEN 0 - CmpAbs(x.abs, y.abs)
    ELSE CmpAbs(x.abs, y.abs)

RECURSIVE MulAddRev(_, _, _, _)
\* b*m + carry on a little-endian byte string (least significant first)
MulAddRev(b, m, carry, acc) ==
    IF b = <<>>
    THEN (IF carry = 0 THEN acc ELSE MulAddRev(<<0>>, m, carry, acc))
    ELSE LET v == Head(b) * m + carry
         IN  MulAddRev(Tail(b), m, v \div 256, <<v % 256>> \o acc)

RECURSIVE Reverse(_)
Reverse(q) == IF q = <<>> THEN <<>> ELSE Reverse(Tail(q)) \o <<Head(q)>>

\* abs*m + a for small m, a (big-endian in, big-endian out, normalised)
MulAdd(abs, m, a) == StripZeros(MulAddRev(Reverse(abs), m, a, <<>>))

RECURSIVE FromDigits(_, _)
\* the magnitude whose decimal digits are d (most significant first)
FromDigits(d, acc) ==
    IF d = <<>> THEN acc
    ELSE LET next == MulAdd(acc, 10, Head(d))
         IN  IF Len(next) >= 0 THEN FromDigits(Tail(d), next) ELSE acc

\* big.NewInt of a non-negative literal given by its decimal digits
NewInt(neg, digits) == BigInt(neg, FromDigits(digits, <<>>))

RECURSIVE DivMod10(_, _, _)
\* long division of a big-endian byte string by 10: <<quotient, remainder>>
DivMod10(b, r, q) ==
    IF b = <<>> THEN <<StripZeros(q), r>>
    ELSE LET cur == r * 256 + Head(b)
         IN  DivMod10(Tail(b), cur % 10, q \o <<cur \div 10>>)

RECURSIVE DecimalDigits(_)
DecimalDigits(abs) ==
    IF abs = <<>> THEN <<>>
    ELSE LET qr == DivMod10(abs, 0, <<>>)
         IN  DecimalDigits(qr[1]) \o <<DigitChars[qr[2] + 1]>>

\* (*big.Int).String: the base-10 text
String(x) ==
    IF x.abs = <<>> THEN <<"0">>
    ELSE (IF x.neg THEN <<"-">> ELSE <<>>) \o DecimalDigits(x.abs)

RECURSIVE StripZeroChars(_)
StripZeroChars(c) ==
    IF Len(c) > 1 /\ Head(c) = "0" THEN StripZeroChars(Tail(c)) ELSE c

\* (*big.Int).Text(16) of a magnitude
Text16(abs) == IF abs = <<>> THEN <<"0">> ELSE StripZeroChars(EncodeToString(abs))

\* (*big.Int).FillBytes(buf) with len(buf) = n: the magnitude, big-endian,
\* left-padded with zeros; it panics when the magnitude does not fit.
FillBytesFits(x, n) == Len(x.abs) <= n

FillBytes(x, n) == Zeros(n - Len(x.abs)) \o x.abs

RECURSIVE Add1Rev(_)
Add1Rev(b) ==
    IF b = <<>> THEN <<>>
    ELSE IF Head(b) = 255 THEN <<0>> \o Add1Rev(Tail(b))
    ELSE <<Head(b) + 1>> \o Tail(b)

\* the two's complement of an 8-byte pattern: (2^64 - p) mod 2^64
Neg64(p) == Reverse(Add1Rev(Reverse([k \in 1..Len(p) |-> 255 - p[k]])))

\* low64(x.abs): the low 8 bytes of the magnitude
Low64(abs) ==
    IF Len(abs) >= 8 THEN SubSeq(abs, Len(abs) - 7, Len(abs))
    ELSE Zeros(8 - Len(abs)) \o abs

\* (*big.Int).Int64: int64(low64(x.abs)), negated (wrapping) when x.neg.
\* For an x outside the int64 range the documentation leaves the result
\* undefined; the implementation returns these wrapped low 64 bits.
Int64(x) ==
    LET p      == Low64(x.abs)
        topSet == p[1] >= 128
        v      == BigInt(topSet, IF topSet THEN Neg64(p) ELSE p)
        isMin  == p = <<128>> \o Zeros(7)
    IN  IF x.neg /\ ~isMin THEN BigInt(~v.neg, v.abs) ELSE v

RECURSIVE BitLen(_)
\* the number of significant bits of a machine integer
BitLen(b) == IF b = 0 THEN 0 ELSE 1 + BitLen(b \div 2)

RECURSIVE Pow2(_)
Pow2(e) == IF e = 0 THEN 1 ELSE 2 * Pow2(e - 1)

\* float64(v) of an int64 v: the integer rounded to 53 significant bits,
\* ties to even. An int64 has at most 64 bits, so at most 11 low bits are
\* rounded away and they lie in the two low bytes.
Float64(v) ==
    LET L == Len(v.abs)
        n == IF L = 0 THEN 0 ELSE 8 * (L - 1) + BitLen(v.abs[1])
        e == n - 53
    IN  IF e <= 0 THEN v
        ELSE LET low  == v.abs[L - 1] * 256 + v.abs[L]
                 unit == Pow2(e)
                 rem  == low % unit
                 kept == low - rem
                 odd  == (low \div unit) % 2 = 1
                 up   == rem * 2 > unit \/ (rem * 2 = unit /\ odd)
                 nlow == IF up THEN kept + unit ELSE kept
                 hi   == SubSeq(v.abs, 1, L - 2)
             IN  BigInt(v.neg, MulAdd(MulAdd(hi, 256, nlow \div 256), 256, nlow % 256))

\* ------------------------------------------------ values and result pairs

\* the interface{} values the serializer builds
Nil == [t |-> "nil"]

Str(c) == [t |-> "str", s |-> c]

\* what a call returns: the pair (out, err), or a fault
Ok(v) == [kind |-> "ok", out |-> v, err |-> Nil]

\* i18n.NewError(ctx, msg, args...): the message key and the inserts, in order
NewError(msg, args) == [msg |-> msg, args |-> args]

\* return nil, err
Err(e) == [kind |-> "err", out |-> Nil, err |-> e]

\* an uncontrolled runtime fault: a failed type assertion, FillBytes overflow
Fault == [kind |-> "panic"]

None == [kind |-> "none"]

\* ------------------------------------------------------------- Serializer

FormatAsObjects == 0

FormatAsFlatArrays == 1

FormatAsSelfDescribingArrays == 2

maxSafeJSONNumberInt == NewInt(FALSE, <<9, 0, 0, 7, 1, 9, 9, 2, 5, 4, 7, 4, 0, 9, 9, 1>>)

minSafeJSONNumberInt == NewInt(TRUE, <<9, 0, 0, 7, 1, 9, 9, 2, 5, 4, 7, 4, 0, 9, 9, 1>>)

NewSerializer ==
    [ts |-> FormatAsObjects,
     is |-> "Base10StringIntSerializer",
     fs |-> "Base10StringFloatSerializer",
     bs |-> "HexByteSerializer",
     dn |-> "NumericDefaultNameGenerator",
     ad |-> "nil"]

SetFormattingMode(sz, ts) == [sz EXCEPT !.ts = ts]

SetIntSerializer(sz, is) == [sz EXCEPT !.is = is]

SetFloatSerializer(sz, fs) == [sz EXCEPT !.fs = fs]

SetByteSerializer(sz, bs) == [sz EXCEPT !.bs = bs]

SetAddressSerializer(sz, ad) == [sz EXCEPT !.ad = ad]

SetDefaultNameGenerator(sz, dn) == [sz EXCEPT !.dn = dn]

Base10StringIntSerializer(i) == Str(String(i))

HexIntSerializer0xPrefix(i) ==
    Str((IF i.neg THEN <<"-">> ELSE <<>>) \o <<"0", "x">> \o Text16(i.abs))

JSONNumberIntSerializer(i) == [t |-> "jsonnumber", s |-> String(i)]

\* the two comparisons made inclusive: the boundary values become strings
NumberIfFits_InclusiveBounds(i) ==
    IF Cmp(i, maxSafeJSONNumberInt) >= 0 \/ Cmp(i, minSafeJSONNumberInt) <= 0
    THEN Str(String(i))
    ELSE [t |-> "num", v |-> Float64(Int64(i))]

NumberIfFitsOrBase10StringIntSerializer(i) ==
    IF Cmp(i, maxSafeJSONNumberInt) > 0 \/ Cmp(i, minSafeJSONNumberInt) < 0
    THEN Str(String(i))
    ELSE [t |-> "num", v |-> Float64(Int64(i))]

HexByteSerializer(b) == Str(EncodeToString(b))

HexByteSerializer0xPrefix(b) == Str(<<"0", "x">> \o EncodeToString(b))

NumericDefaultNameGenerator(idx) == FormatInt(idx)

\* a caller-supplied generator that is not injective: every index is "0"
ConstantNameGenerator(idx) == <<"0">>

\* s.is(i)
ApplyIntSerializer(sz, i) ==
    CASE sz.is = "Base10StringIntSerializer" -> Base10StringIntSerializer(i)
      [] sz.is = "HexIntSerializer0xPrefix" -> HexIntSerializer0xPrefix(i)
      [] sz.is = "JSONNumberIntSerializer" -> JSONNumberIntSerializer(i)
      [] sz.is = "NumberIfFitsOrBase10StringIntSerializer" ->
             NumberIfFitsOrBase10StringIntSerializer(i)

\* s.fs(f): the big.Float strategies are kept as applications
ApplyFloatSerializer(sz, f) == [t |-> "float", fs |-> sz.fs, f |-> f]

\* s.bs(b)
ApplyByteSerializer(sz, b) ==
    CASE sz.bs = "HexByteSerializer" -> HexByteSerializer(b)
      [] sz.bs = "HexByteSerializer0xPrefix" -> HexByteSerializer0xPrefix(b)

\* s.ad(addr): the ethtypes address formats are kept as applications
ApplyAddressSerializer(sz, addr) == [t |-> "addr", ad |-> sz.ad, addr |-> addr]

\* s.dn(idx)
ApplyDefaultName(sz, idx) ==
    CASE sz.dn = "NumericDefaultNameGenerator" -> NumericDefaultNameGenerator(idx)
      [] sz.dn = "ConstantNameGenerator" -> ConstantNameGenerator(idx)

\* --------------------------------------------------------- ComponentValue

\* cv.Value, by its dynamic type: *big.Int, *big.Float, []byte, string, nil
IntValue(i) == [shape |-> "int", int |-> i, raw |-> <<>>]

FloatValue(f) == [shape |-> "float", int |-> BigInt(FALSE, <<>>), raw |-> f]

BytesValue(b) == [shape |-> "bytes", int |-> BigInt(FALSE, <<>>), raw |-> b]

StringValue(c) == [shape |-> "string", int |-> BigInt(FALSE, <<>>), raw |-> c]

NilValue == [shape |-> "nil", int |-> BigInt(FALSE, <<>>), raw |-> <<>>]

\* a ComponentValue: comp is "nil" for a nil Component, else ComponentType();
\* et is ElementaryType(), name KeyName(), sig String()
Node(comp, et, name, sig, val, children) ==
    [comp |-> comp, et |-> et, name |-> name, sig |-> sig, val |-> val,
     children |-> children]

RECURSIVE NodeAt(_, _)
\* the node reached from cv by following the child indexes of path (0-based)
NodeAt(cv, path) ==
    IF path = <<>> THEN cv ELSE NodeAt(cv.children[Head(path) + 1], Tail(path))

\* ------------------------------------------------------ elementary encoder

AddressLen == 20

serializeElementaryType(sz, breadcrumbs, cv) ==
    LET isInt == cv.val.shape = "int"
        v     == cv.val.int
    IN  CASE cv.et \in {"int", "uint"} ->
                 IF isInt THEN Ok(ApplyIntSerializer(sz, v)) ELSE Fault
          [] cv.et = "address" ->
                 IF ~isInt \/ ~FillBytesFits(v, AddressLen) THEN Fault
                 ELSE IF sz.ad = "nil"
                      THEN Ok(ApplyByteSerializer(sz, FillBytes(v, AddressLen)))
                      ELSE Ok(ApplyAddressSerializer(sz, FillBytes(v, AddressLen)))
          [] cv.et = "bool" ->
                 IF isInt
                 THEN Ok([t |-> "bool", b |-> Int64(v) = BigInt(FALSE, <<1>>)])
                 ELSE Fault
          [] cv.et \in {"fixed", "ufixed"} ->
                 IF cv.val.shape = "float"
                 THEN Ok(ApplyFloatSerializer(sz, cv.val.raw)) ELSE Fault
          [] cv.et \in {"bytes", "function"} ->
                 IF cv.val.shape = "bytes"
                 THEN Ok(ApplyByteSerializer(sz, cv.val.raw)) ELSE Fault
          [] cv.et = "string" ->
                 IF cv.val.shape = "string" THEN Ok(Str(cv.val.raw)) ELSE Fault
          [] OTHER ->
                 Err(NewError("MsgUnknownABIElementaryType",
                              <<[a |-> "elementaryType", v |-> cv.et],
                                [a |-> "string", v |-> breadcrumbs]>>))

\* ------------------------------------------------------------ tree walker

\* fmt.Sprintf("%s[%d]", breadcrumbs, i)
SprintfIndex(breadcrumbs, i) == breadcrumbs \o <<"[">> \o FormatInt(i) \o <<"]">>

\* the path so far dropped from the breadcrumb: only the last segment is kept
SprintfName_LastSegmentOnly(breadcrumbs, x) ==
    <<"[">> \o (IF x.t = "str" THEN x.s ELSE <<"n", "i", "l">>) \o <<"]">>

\* fmt.Sprintf("%s[%s]", breadcrumbs, x) for a string or, in the
\* self-describing format, an interface{} x that may be nil
SprintfName(breadcrumbs, x) ==
    breadcrumbs \o <<"[">>
        \o (IF x.t = "str" THEN x.s
            ELSE <<"%", "!", "s", "(", "<", "n", "i", "l", ">", ")">>)
        \o <<"]">>

\* map[string]interface{}: reading a missing key gives nil
MapGet(m, k) == IF k \in DOMAIN m THEN m[k] ELSE Nil

\* an assignment that keeps the value of a key already present
MapPut_FirstWriteWins(m, k, v) ==
    [x \in (DOMAIN m) \cup {k} |-> IF x \in DOMAIN m THEN m[x] ELSE v]

MapPut(m, k, v) == [x \in (DOMAIN m) \cup {k} |-> IF x = k THEN v ELSE m[x]]

KeyNameKey == <<"n", "a", "m", "e">>

KeyTypeKey == <<"t", "y", "p", "e">>

KeyValueKey == <<"v", "a", "l", "u", "e">>

\* the locals of a serializeArray / serializeTuple call in progress
Frame(enc, path, breadcrumbs, n) ==
    [enc |-> enc, path |-> path, breadcrumbs |-> breadcrumbs, i |-> 0,
     out |-> IF enc = "objects" THEN <<>> ELSE [k \in 1..n |-> Nil],
     name |-> <<>>, vm |-> <<>>]

\* an unrecognised mode handled like FormatAsFlatArrays, not rejected
serializeTupleEnter_DefaultsToFlat(sz, stk, breadcrumbs, path, cv) ==
    IF sz.ts \in {FormatAsObjects, FormatAsSelfDescribingArrays}
    THEN [stack |-> Append(stk, Frame(IF sz.ts = FormatAsObjects THEN "objects" ELSE "selfdesc",
                                      path, breadcrumbs, Len(cv.children))),
          ret |-> None]
    ELSE [stack |-> Append(stk, Frame("flat", path, breadcrumbs, Len(cv.children))),
          ret |-> None]

\* serializeTuple up to its first loop: the switch on s.ts
serializeTupleEnter(sz, stk, breadcrumbs, path, cv) ==
    CASE sz.ts = FormatAsObjects ->
             [stack |-> Append(stk, Frame("objects", path, breadcrumbs, Len(cv.children))),
              ret |-> None]
      [] sz.ts = FormatAsFlatArrays ->
             [stack |-> Append(stk, Frame("flat", path, breadcrumbs, Len(cv.children))),
              ret |-> None]
      [] sz.ts = FormatAsSelfDescribingArrays ->
             [stack |-> Append(stk, Frame("selfdesc", path, breadcrumbs, Len(cv.children))),
              ret |-> None]
      [] OTHER ->
             [stack |-> stk,
              ret |-> Err(NewError("MsgUnknownTupleSerializer",
                                   <<[a |-> "formattingMode", v |-> sz.ts]>>))]

\* walkOutput(ctx, breadcrumbs, cv) for the node at path: either it returns
\* at once (ret), or a composite encoder starts (a new frame)
walkOutput(sz, stk, breadcrumbs, path) ==
    LET cv == NodeAt(root, path)
    IN  CASE cv.comp = "nil" ->
                 [stack |-> stk,
                  ret |-> Err(NewError("MsgBadABITypeComponent",
                                       <<[a |-> "componentValue", v |-> cv]>>))]
          [] cv.comp = "elementary" ->
                 [stack |-> stk, ret |-> serializeElementaryType(sz, breadcrumbs, cv)]
          [] cv.comp \in {"fixedarray", "dynamicarray"} ->
                 [stack |-> Append(stk, Frame("array", path, breadcrumbs, Len(cv.children))),
                  ret |-> None]
          [] cv.comp = "tuple" ->
                 serializeTupleEnter(sz, stk, breadcrumbs, path, cv)
          [] OTHER ->
                 [stack |-> stk,
                  ret |-> Err(NewError("MsgBadABITypeComponent",
                                       <<[a |-> "component", v |-> cv.comp]>>))]

\* bookkeeping: what the walk of the node at path returned
Record(rs, path, r) == IF r.kind = "none" THEN rs ELSE (path :> r) @@ rs

\* a call of walkOutput from the frame on top of stk (or from the top level)
Invoke(stk, breadcrumbs, path) ==
    LET c == walkOutput(s, stk, breadcrumbs, path)
    IN  /\ stack' = c.stack
        /\ ret' = c.ret
        /\ visited' = Append(visited, path)
        /\ results' = Record(results, path, c.ret)

Top == stack[Len(stack)]

Pop == SubSeq(stack, 1, Len(stack) - 1)

Child == NodeAt(root, Top.path).children[Top.i + 1]

NumChildren == Len(NodeAt(root, Top.path).children)

InLoop(enc) ==
    /\ pc = "walking"
    /\ stack # <<>>
    /\ Top.enc = enc

\* the encoder on top of the stack returns r to its caller
ReturnFromTop(r) ==
    /\ stack' = Pop
    /\ ret' = r
    /\ results' = Record(results, Top.path, r)
    /\ UNCHANGED <<s, root, pc, result, visited>>

\* the error returned together with the partly filled output
ReturnChildError_WithPartialOutput ==
    ReturnFromTop([kind |-> "err", out |-> [t |-> "partial", v |-> Top.out], err |-> ret.err])

\* if err != nil { return nil, err }
ReturnChildError == ReturnFromTop(Err(ret.err))

\* SerializeInterfaceCtx: return s.walkOutput(ctx, "", cv)
SerializeInterfaceCtx ==
    /\ pc = "ready"
    /\ pc' = "walking"
    /\ Invoke(<<>>, <<>>, <<>>)
    /\ UNCHANGED <<s, root, result>>

\* serializeArray, the loop body up to the recursive call
serializeArrayCall ==
    /\ InLoop("array")
    /\ ret.kind = "none"
    /\ Top.i < NumChildren
    /\ Invoke(stack, SprintfIndex(Top.breadcrumbs, Top.i), Top.path \o <<Top.i>>)
    /\ UNCHANGED <<s, root, pc, result>>

\* serializeArray, after the recursive call returned
serializeArrayCollect ==
    /\ InLoop("array")
    /\ ret.kind \in {"ok", "err"}
    /\ IF ret.kind = "err"
       THEN ReturnChildError
       ELSE /\ stack' = Append(Pop, [Top EXCEPT !.out[Top.i + 1] = ret.out, !.i = @ + 1])
            /\ ret' = None
            /\ UNCHANGED <<s, root, pc, result, visited, results>>

\* serializeArray: return out, nil
serializeArrayReturn ==
    /\ InLoop("array")
    /\ ret.kind = "none"
    /\ Top.i = NumChildren
    /\ ReturnFromTop(Ok([t |-> "arr", items |-> Top.out]))

\* serializeTuple, FormatAsObjects: a child with a nil Component is passed over
serializeObjectsSkip ==
    /\ InLoop("objects")
    /\ ret.kind = "none"
    /\ Top.i < NumChildren
    /\ Child.comp = "nil"
    /\ stack' = Append(Pop, [Top EXCEPT !.i = @ + 1])
    /\ UNCHANGED <<s, root, pc, ret, result, visited, results>>

\* serializeTuple, FormatAsObjects: the loop body up to the recursive call
serializeObjectsCall ==
    /\ InLoop("objects")
    /\ ret.kind = "none"
    /\ Top.i < NumChildren
    /\ Child.comp # "nil"
    /\ LET name == IF Child.name = <<>> THEN ApplyDefaultName(s, Top.i) ELSE Child.name
       IN  Invoke(Append(Pop, [Top EXCEPT !.name = name]),
                  SprintfName(Top.breadcrumbs, Str(name)), Top.path \o <<Top.i>>)
    /\ UNCHANGED <<s, root, pc, result>>

\* serializeTuple, FormatAsObjects: after the recursive call returned
serializeObjectsCollect ==
    /\ InLoop("objects")
    /\ ret.kind \in {"ok", "err"}
    /\ IF ret.kind = "err"
       THEN ReturnChildError
       ELSE /\ stack' = Append(Pop, [Top EXCEPT !.out = MapPut(@, Top.name, ret.out),
                                                !.i = @ + 1])
            /\ ret' = None
            /\ UNCHANGED <<s, root, pc, result, visited, results>>

\* serializeTuple, FormatAsObjects: return out, nil
serializeObjectsReturn ==
    /\ InLoop("objects")
    /\ ret.kind = "none"
    /\ Top.i = NumChildren
    /\ ReturnFromTop(Ok([t |-> "obj", m |-> Top.out]))

\* serializeTuple, FormatAsFlatArrays: the loop body up to the recursive call
serializeFlatCall ==
    /\ InLoop("flat")
    /\ ret.kind = "none"
    /\ Top.i < NumChildren
    /\ Invoke(stack, SprintfIndex(Top.breadcrumbs, Top.i), Top.path \o <<Top.i>>)
    /\ UNCHANGED <<s, root, pc, result>>

\* serializeTuple, FormatAsFlatArrays: after the recursive call returned
serializeFlatCollect ==
    /\ InLoop("flat")
    /\ ret.kind \in {"ok", "err"}
    /\ IF ret.kind = "err"
       THEN ReturnChildError
       ELSE /\ stack' = Append(Pop, [Top EXCEPT !.out[Top.i + 1] = ret.out, !.i = @ + 1])
            /\ ret' = None
            /\ UNCHANGED <<s, root, pc, result, visited, results>>

\* serializeTuple, FormatAsFlatArrays: return out, nil
serializeFlatReturn ==
    /\ InLoop("flat")
    /\ ret.kind = "none"
    /\ Top.i = NumChildren
    /\ ReturnFromTop(Ok([t |-> "arr", items |-> Top.out]))

\* the vm of one loop round of FormatAsSelfDescribingArrays, before the call:
\* vm["name"] == "" compares an interface{} with a string, and a missing
\* key reads as the nil interface, which is not the empty string
selfDescribingEntry(sz, child, i) ==
    LET vm0 == IF child.comp # "nil"
               THEN MapPut(MapPut(<<>>, KeyNameKey, Str(child.name)),
                           KeyTypeKey, Str(child.sig))
               ELSE <<>>
    IN  IF MapGet(vm0, KeyNameKey) = Str(<<>>)
        THEN MapPut(vm0, KeyNameKey, Str(ApplyDefaultName(sz, i)))
        ELSE vm0

\* serializeTuple, FormatAsSelfDescribingArrays: up to the recursive call
serializeSelfDescribingCall ==
    /\ InLoop("selfdesc")
    /\ ret.kind = "none"
    /\ Top.i < NumChildren
    /\ LET vm == selfDescribingEntry(s, Child, Top.i)
       IN  Invoke(Append(Pop, [Top EXCEPT !.vm = vm]),
                  SprintfName(Top.breadcrumbs, MapGet(vm, KeyNameKey)),
                  Top.path \o <<Top.i>>)
    /\ UNCHANGED <<s, root, pc, result>>

\* serializeTuple, FormatAsSelfDescribingArrays: after the call returned
serializeSelfDescribingCollect ==
    /\ InLoop("selfdesc")
    /\ ret.kind \in {"ok", "err"}
    /\ IF ret.kind = "err"
       THEN ReturnChildError
       ELSE /\ stack' = Append(Pop,
                   [Top EXCEPT !.out[Top.i + 1] =
                                   [t |-> "obj", m |-> MapPut(Top.vm, KeyValueKey, ret.out)],
                               !.i = @ + 1])
            /\ ret' = None
            /\ UNCHANGED <<s, root, pc, result, visited, results>>

\* serializeTuple, FormatAsSelfDescribingArrays: return out, nil
serializeSelfDescribingReturn ==
    /\ InLoop("selfdesc")
    /\ ret.kind = "none"
    /\ Top.i = NumChildren
    /\ ReturnFromTop(Ok([t |-> "arr", items |-> Top.out]))

\* SerializeInterfaceCtx returns what the outermost walkOutput returned
Return ==
    /\ pc = "walking"
    /\ stack = <<>>
    /\ ret.kind \in {"ok", "err"}
    /\ pc' = "returned"
    /\ result' = ret
    /\ ret' = None
    /\ UNCHANGED <<s, root, stack, visited, results>>

\* a fault unwinds every call in progress: nothing in the file recovers
Panic ==
    /\ pc = "walking"
    /\ ret.kind = "panic"
    /\ pc' = "panicked"
    /\ stack' = <<>>
    /\ ret' = None
    /\ UNCHANGED <<s, root, result, visited, results>>

\* ------------------------------------------------------------------ inputs

Uint256 == <<"u", "i", "n", "t", "2", "5", "6">>

\* elementary nodes of a walked tree: two uint256 values, one without a
\* name and one named "0", a node of an unrecognised elementary kind, a node
\* without Component, and an int node whose Value is a string
Leaves ==
    {Node("elementary", "uint", <<>>, Uint256, IntValue(BigInt(FALSE, <<1>>)), <<>>),
     Node("elementary", "uint", <<"0">>, Uint256, IntValue(BigInt(FALSE, <<2>>)), <<>>),
     Node("elementary", "other", <<"a">>, <<"?">>, NilValue, <<>>),
     Node("nil", "", <<>>, <<>>, NilValue, <<>>),
     Node("elementary", "int", <<>>, <<"i", "n", "t", "8">>, StringValue(<<"x">>), <<>>)}

Composite(comp, children) ==
    Node(comp, "",
         IF comp = "tuple" THEN <<"t">> ELSE <<>>,
         IF comp = "tuple" THEN <<"(", ")">> ELSE <<"[", "]">>,
         NilValue, children)

RECURSIVE TreesOfSize(_), Forests(_)
\* the value trees with exactly n nodes, their inner arrays dynamic ones
TreesOfSize(n) ==
    IF n = 1
    THEN Leaves \cup {Composite(k, <<>>) : k \in {"tuple", "dynamicarray"}}
    ELSE {Composite(k, f) : k \in {"tuple", "dynamicarray"}, f \in Forests(n - 1)}

\* the non-empty sequences of trees with m nodes in all
Forests(m) ==
    {<<tr>> : tr \in TreesOfSize(m)}
        \cup UNION {{<<tr>> \o f : tr \in TreesOfSize(k), f \in Forests(m - k)} :
                        k \in 1..(m - 1)}

\* the trees of up to MaxNodes nodes; an array at the root is of either kind
Trees ==
    LET T == UNION {TreesOfSize(n) : n \in 1..MaxNodes}
    IN  T \cup {[tr EXCEPT !.comp = "fixedarray"] : tr \in {x \in T : x.comp = "dynamicarray"}}

RECURSIVE HasTuple(_)
HasTuple(cv) ==
    \/ cv.comp = "tuple"
    \/ \E k \in 1..Len(cv.children) : HasTuple(cv.children[k])

\* the formatting modes a caller can set: the three known ones and one more
FormattingModes == {FormatAsObjects, FormatAsFlatArrays, FormatAsSelfDescribingArrays, 3}

\* the settings that the walk of cv reads: s.ts and s.dn only under a tuple
SerializersForTree(cv) ==
    IF HasTuple(cv)
    THEN {SetFormattingMode(NewSerializer, ts) : ts \in FormattingModes}
             \cup {SetDefaultNameGenerator(SetFormattingMode(NewSerializer, ts),
                                           "ConstantNameGenerator") :
                       ts \in {FormatAsObjects, FormatAsSelfDescribingArrays}}
    ELSE {NewSerializer}

Fill(b, n) == [k \in 1..n |-> b]

\* decoded integers: magnitudes of up to MaxBytes bytes around the powers of
\* two that matter (2^53, 2^63, 2^64, 2^160), with both signs
Magnitudes ==
    {<<>>}
        \cup {<<b>> : b \in {1, 2, 31, 32, 255}}
        \cup {<<first>> \o Fill(mid, n - 2) \o <<last>> :
                  first \in {1, 31, 32, 127, 128, 255}, mid \in {0, 255},
                  last \in {0, 1, 255}, n \in 2..MaxBytes}

BigInts == {BigInt(neg, abs) : neg \in BOOLEAN, abs \in Magnitudes}

ElementaryKinds ==
    {"int", "uint", "address", "bool", "fixed", "ufixed", "bytes", "function",
     "string", "other"}

Values ==
    {IntValue(i) : i \in BigInts}
        \cup {FloatValue(<<"1", ".", "5">>), BytesValue(<<254, 237>>),
              StringValue(<<"x">>), NilValue}

\* a tree of one node
SingleNodes ==
    {Node("elementary", et, <<"a">>, <<"T">>, v, <<>>) : et \in ElementaryKinds, v \in Values}
        \cup {Node("other", "", <<"a">>, <<"T">>, NilValue, <<>>)}

\* the strategies that the encoding of a node of elementary kind et reads
SerializersFor(et) ==
    IF et \in {"int", "uint"}
    THEN {SetIntSerializer(NewSerializer, is) :
              is \in {"Base10StringIntSerializer", "HexIntSerializer0xPrefix",
                      "JSONNumberIntSerializer",
                      "NumberIfFitsOrBase10StringIntSerializer"}}
    ELSE IF et \in {"address", "bytes", "function"}
    THEN {SetAddressSerializer(SetByteSerializer(NewSerializer, bs), ad) :
              bs \in {"HexByteSerializer", "HexByteSerializer0xPrefix"},
              ad \in {"nil", "HexAddrSerializer0xPrefix"}}
    ELSE IF et \in {"fixed", "ufixed"}
    THEN {SetFloatSerializer(NewSerializer, fs) :
              fs \in {"Base10StringFloatSerializer",
                      "NumberIfFitsOrBase10StringFloatSerializer"}}
    ELSE {NewSerializer}

\* ---------------------------------------------------------- specifications

Ready ==
    /\ pc = "ready"
    /\ stack = <<>>
    /\ ret = None
    /\ result = None
    /\ visited = <<>>
    /\ results = <<>>

\* a configured Serializer and a decoded value tree, before the call
Init ==
    /\ root \in Trees
    /\ s \in SerializersForTree(root)
    /\ Ready

Next ==
    \/ SerializeInterfaceCtx
    \/ serializeArrayCall
    \/ serializeArrayCollect
    \/ serializeArrayReturn
    \/ serializeObjectsSkip
    \/ serializeObjectsCall
    \/ serializeObjectsCollect
    \/ serializeObjectsReturn
    \/ serializeFlatCall
    \/ serializeFlatCollect
    \/ serializeFlatReturn
    \/ serializeSelfDescribingCall
    \/ serializeSelfDescribingCollect
    \/ serializeSelfDescribingReturn
    \/ Return
    \/ Panic

Spec == Init /\ [][Next]_vars

\* a single elementary node, every kind against every shape of Value
InitElementary ==
    /\ root \in SingleNodes
    /\ s \in SerializersFor(root.et)
    /\ Ready

NextElementary ==
    \/ SerializeInterfaceCtx
    \/ Return
    \/ Panic

SpecElementary == InitElementary /\ [][NextElementary]_vars

\* ------------------------------------------------------------- properties

Range(q) == {q[k] : k \in 1..Len(q)}

IsPrefix(a, b) == Len(a) <= Len(b) /\ SubSeq(b, 1, Len(a)) = a

Returned(p) == p \in DOMAIN results

Failed(p) == Returned(p) /\ results[p].kind = "err"

\* the paths of the children of the node at p
ChildPaths(p) == {p \o <<i>> : i \in 0..(Len(NodeAt(root, p).children) - 1)}

\* the name a tuple field goes by: its declared name, or the generated one
ResolvedName(child, i) ==
    IF child.comp = "nil" \/ child.name = <<>> THEN ApplyDefaultName(s, i) ELSE child.name

RECURSIVE BreadcrumbOf(_, _)
\* the breadcrumb of the node at path below cv, read off the tree: [i] under
\* an array or a flat tuple, [name] under a tuple of a named mode
BreadcrumbOf(cv, path) ==
    IF path = <<>> THEN <<>>
    ELSE LET i     == Head(path)
             child == cv.children[i + 1]
             named == /\ cv.comp = "tuple"
                      /\ s.ts \in {FormatAsObjects, FormatAsSelfDescribingArrays}
             seg   == IF named THEN ResolvedName(child, i) ELSE FormatInt(i)
         IN  <<"[">> \o seg \o <<"]">> \o BreadcrumbOf(child, Tail(path))

\* the node at which the failure occurred: the deepest one whose walk failed
FailurePoint ==
    CHOOSE q \in DOMAIN results :
        Failed(q) /\ \A p \in DOMAIN results : Failed(p) => Len(p) <= Len(q)

CarriesString(e, c) == \E k \in 1..Len(e.args) : e.args[k] = [a |-> "string", v |-> c]

\* the shape of Value that an elementary kind requires ("" when none)
RequiredShape(et) ==
    CASE et \in {"int", "uint", "address", "bool"} -> "int"
      [] et \in {"fixed", "ufixed"} -> "float"
      [] et \in {"bytes", "function"} -> "bytes"
      [] et = "string" -> "string"
      [] OTHER -> ""

SingleElementary(kinds) ==
    /\ root.comp = "elementary"
    /\ root.et \in kinds

\* 2^53 - 1 = 9007199254740991, written as bytes
SafeMagnitude == <<31, 255, 255, 255, 255, 255, 255>>

RECURSIVE DigitValues(_)
\* the values of decimal digit characters (10 for any other character)
DigitValues(c) ==
    IF c = <<>> THEN <<>>
    ELSE <<IF \E d \in 1..10 : DigitChars[d] = Head(c)
           THEN (CHOOSE d \in 1..10 : DigitChars[d] = Head(c)) - 1
           ELSE 10>> \o DigitValues(Tail(c))

\* c is the canonical base-10 text of the integer i
IsDecimalOf(c, i) ==
    LET neg    == c # <<>> /\ Head(c) = "-"
        digits == DigitValues(IF neg THEN Tail(c) ELSE c)
    IN  /\ digits # <<>>
        /\ \A k \in 1..Len(digits) : digits[k] < 10
        /\ Len(digits) > 1 => digits[1] # 0
        /\ neg = i.neg
        /\ FromDigits(digits, <<>>) = i.abs

\* C1: a serialization call on an elementary node whose Value has not the
\* shape its kind requires returns an error and does not end in a panic.
C1_MismatchReturnsError ==
    (/\ SingleElementary(ElementaryKinds)
     /\ RequiredShape(root.et) # ""
     /\ root.val.shape # RequiredShape(root.et))
        => /\ pc # "panicked"
           /\ pc = "returned" => result.kind = "err"

\* C2 (state part): the walk is depth-first in child order; once the walk of
\* a node has failed, that node is the last one walked, every enclosing
\* encoder that has returned has returned that same error with a nil output,
\* and so has the top-level call.
C2_ErrorUnchanged ==
    /\ \A j, k \in 1..Len(visited) :
           j < k => \/ IsPrefix(visited[j], visited[k])
                    \/ \E n \in 1..Len(visited[j]) :
                           /\ n <= Len(visited[k])
                           /\ SubSeq(visited[j], 1, n - 1) = SubSeq(visited[k], 1, n - 1)
                           /\ visited[j][n] < visited[k][n]
    /\ (\E p \in DOMAIN results : Failed(p)) =>
           LET q == FailurePoint
           IN  /\ visited[Len(visited)] = q
               /\ results[q].out = Nil
               /\ \A p \in DOMAIN results :
                      IF IsPrefix(p, q) THEN results[p] = results[q] ELSE ~Failed(p)
               /\ pc = "returned" => result = results[q]
               /\ pc # "panicked"

\* C2: fail-fast propagation. After the walk of some node has returned an
\* error no node is walked any more, and the error reaches the caller
\* unchanged, with no output beside it.
C2_FailFast ==
    /\ []C2_ErrorUnchanged
    /\ [][(\E p \in DOMAIN results : Failed(p)) => visited' = visited]_vars

C2_Witness ==
    /\ pc = "returned"
    /\ result.kind = "err"
    /\ \E q \in DOMAIN results :
           /\ Len(q) = 2
           /\ q = FailurePoint
           /\ (SubSeq(q, 1, 1) \o <<q[2] + 1>>) \in ChildPaths(SubSeq(q, 1, 1))
           /\ NodeAt(root, SubSeq(q, 1, 1) \o <<q[2] + 1>>).comp = "elementary"
           /\ Failed(<<>>) /\ Failed(SubSeq(q, 1, 1))

\* C3 as stated: every error a call returns carries the breadcrumb of the
\* node at which the failure occurred (a failure at the root, whose
\* breadcrumb is empty, has nothing to carry).
C3_EveryErrorCarriesBreadcrumb ==
    pc = "returned" /\ result.kind = "err"
        => \/ FailurePoint = <<>>
           \/ CarriesString(result.err, BreadcrumbOf(root, FailurePoint))

\* C3 amended: an UnknownElementaryType error carries the elementary kind
\* and the breadcrumb of the failing node; a BadComponent error carries the
\* offending node or descriptor and an UnknownTupleSerializer error the
\* mode, and neither of them a breadcrumb.
C3_ElementaryErrorCarriesBreadcrumb ==
    \A p \in DOMAIN results :
        Failed(p) =>
            LET e == results[p].err
                q == FailurePoint
            IN  CASE e.msg = "MsgUnknownABIElementaryType" ->
                         e.args = <<[a |-> "elementaryType", v |-> NodeAt(root, q).et],
                                    [a |-> "string", v |-> BreadcrumbOf(root, q)]>>
                  [] e.msg = "MsgBadABITypeComponent" ->
                         /\ Len(e.args) = 1
                         /\ e.args[1].a \in {"componentValue", "component"}
                  [] e.msg = "MsgUnknownTupleSerializer" ->
                         e.args = <<[a |-> "formattingMode", v |-> s.ts]>>
                  [] OTHER -> FALSE

C3_Witness ==
    /\ pc = "returned"
    /\ result.kind = "err"
    /\ root.comp \in {"fixedarray", "dynamicarray"}
    /\ result.err.msg = "MsgUnknownABIElementaryType"
    /\ result.err.args[2].v = <<"[", "0", "]", "[", "a", "]">>

\* the children of the tuple at p that have a Component, by index
Described(p) == {i \in 0..(Len(NodeAt(root, p).children) - 1) :
                     NodeAt(root, p).children[i + 1].comp # "nil"}

FieldName(p, i) == ResolvedName(NodeAt(root, p).children[i + 1], i)

LastWithName(p, name) ==
    CHOOSE i \in Described(p) :
        /\ FieldName(p, i) = name
        /\ \A j \in Described(p) : FieldName(p, j) = name => j <= i

\* C4: in the Objects mode a child without Component is not walked and is no
\* error; a tuple whose walk fails fails with the error of one of its
\* children; and the result of a tuple whose children all walked well is the
\* map whose keys are the resolved names of the children with a Component,
\* each key holding the encoding of the last child of that name.
C4_ObjectsMode ==
    \A p \in Range(visited) :
        (NodeAt(root, p).comp = "tuple" /\ s.ts = FormatAsObjects) =>
            /\ \A i \in 0..(Len(NodeAt(root, p).children) - 1) :
                   i \notin Described(p) =>
                       /\ (p \o <<i>>) \notin Range(visited)
                       /\ ~Returned(p \o <<i>>)
            /\ Failed(p) => \E i \in Described(p) : Failed(p \o <<i>>)
            /\ (Returned(p) /\ results[p].kind = "ok") =>
                   /\ results[p].err = Nil
                   /\ results[p].out.t = "obj"
                   /\ DOMAIN results[p].out.m = {FieldName(p, i) : i \in Described(p)}
                   /\ \A name \in DOMAIN results[p].out.m :
                          results[p].out.m[name] =
                              results[p \o <<LastWithName(p, name)>>].out

C4_Witness ==
    /\ pc = "returned"
    /\ result.kind = "ok"
    /\ root.comp = "tuple"
    /\ s.ts = FormatAsObjects
    /\ Len(root.children) = 3
    /\ Described(<<>>) = {0, 1}
    /\ Cardinality(DOMAIN result.out.m) = 1
    /\ results[<<0>>].out # results[<<1>>].out

\* C5: in the SelfDescribingArrays mode the result of every tuple (none of
\* whose children with a Component fails) is an array with one descriptor per
\* child, in order: name (the declared name, or the default name when that
\* is empty or the child has no Component), type (the signature, left out
\* when the child has no Component) and value (the encoded child).
C5_SelfDescribingArrays ==
    \A p \in DOMAIN results :
        (/\ NodeAt(root, p).comp = "tuple"
         /\ s.ts = FormatAsSelfDescribingArrays
         /\ \A i \in Described(p) : ~Failed(p \o <<i>>)) =>
            LET cv == NodeAt(root, p)
                r  == results[p]
            IN  /\ r.kind = "ok"
                /\ r.out.t = "arr"
                /\ Len(r.out.items) = Len(cv.children)
                /\ \A k \in 1..Len(cv.children) :
                       LET d == r.out.items[k].m
                       IN  /\ d[KeyNameKey] = Str(ResolvedName(cv.children[k], k - 1))
                           /\ IF cv.children[k].comp = "nil"
                              THEN KeyTypeKey \notin DOMAIN d
                              ELSE d[KeyTypeKey] = Str(cv.children[k].sig)
                           /\ d[KeyValueKey] = results[p \o <<k - 1>>].out

\* C6: a tuple met under a formatting mode that is none of the three known
\* ones returns UnknownTupleSerializer with the mode, at once: none of its
\* children is walked, whatever they are, and nothing panics.
C6_UnknownMode ==
    \A p \in Range(visited) :
        (/\ NodeAt(root, p).comp = "tuple"
         /\ s.ts \notin {FormatAsObjects, FormatAsFlatArrays, FormatAsSelfDescribingArrays}) =>
            /\ Returned(p)
            /\ results[p] = Err(NewError("MsgUnknownTupleSerializer",
                                         <<[a |-> "formattingMode", v |-> s.ts]>>))
            /\ \A q \in Range(visited) : IsPrefix(p, q) => q = p
            /\ visited[Len(visited)] = p
            /\ pc # "panicked"

C6_Witness ==
    /\ pc = "returned"
    /\ root.comp = "tuple"
    /\ s.ts = 3
    /\ \E k \in 1..Len(root.children) : root.children[k].comp = "nil"
    /\ \E k \in 1..Len(root.children) : root.children[k].val.shape = "string"
    /\ result.kind = "err"
    /\ result.err.msg = "MsgUnknownTupleSerializer"

\* C7: NumberIfFitsOrBase10StringIntSerializer gives, for an integer i with
\* |i| <= 9007199254740991, the number equal to i, and for every other i the
\* exact base-10 text of i.
C7_SafeRange ==
    (/\ SingleElementary({"int", "uint"})
     /\ root.val.shape = "int"
     /\ s.is = "NumberIfFitsOrBase10StringIntSerializer"
     /\ pc # "ready") =>
        LET i == root.val.int
        IN  /\ pc \in {"walking", "returned"}
            /\ pc = "returned" =>
                   /\ result.kind = "ok"
                   /\ IF CmpAbs(i.abs, SafeMagnitude) <= 0
                      THEN result.out = [t |-> "num", v |-> i]
                      ELSE /\ result.out.t = "str"
                           /\ IsDecimalOf(result.out.s, i)

C7_Witness ==
    /\ SingleElementary({"int", "uint"})
    /\ s.is = "NumberIfFitsOrBase10StringIntSerializer"
    /\ pc = "returned"
    /\ root.val.int = BigInt(TRUE, SafeMagnitude)
    /\ result.out.t = "num"

\* C8: a Bool node encodes to true exactly when its decoded integer is 1.
C8_BoolIffOne ==
    (/\ SingleElementary({"bool"})
     /\ root.val.shape = "int"
     /\ pc = "returned") =>
        result.out = [t |-> "bool", b |-> root.val.int = BigInt(FALSE, <<1>>)]

\* C9: an Address node whose Value is an integer yields, for every such
\* integer, the address strategy (or, without one, the byte strategy)
\* applied to the 20 bytes holding the integer big-endian, zero-padded on
\* the left; the call does not crash.
C9_AddressEncoding ==
    (/\ SingleElementary({"address"})
     /\ root.val.shape = "int"
     /\ pc # "ready") =>
        LET abs  == root.val.int.abs
            addr == [k \in 1..20 |-> IF k <= 20 - Len(abs) THEN 0 ELSE abs[k - (20 - Len(abs))]]
        IN  /\ pc # "panicked"
            /\ pc = "returned" =>
                   /\ result.kind = "ok"
                   /\ result.out = IF s.ad = "nil"
                                   THEN ApplyByteSerializer(s, addr)
                                   ELSE ApplyAddressSerializer(s, addr)

\* C10: a call, once started, runs on until it has returned an output or the
\* first error, and it walks no node twice.
C10_RunsToCompletion ==
    /\ \/ pc = "returned" /\ result.kind \in {"ok", "err"}
       \/ ENABLED Next
    /\ \A j, k \in 1..Len(visited) : visited[j] = visited[k] => j = k

====
